---- MODULE Spec2Model ----
(***************************************************************************)
(* A model of the weekly recommendation program of code/stocks.py:         *)
(* the signal engine (compute_signals), the allocation builder             *)
(* (target_weights), the portfolio differ (generate_trade_list), and the   *)
(* application around them: the settings, holdings and recommendations     *)
(* tables, the request handlers and run_weekly_recommendation.             *)
(*                                                                         *)
(* Python floats are modelled as exact rationals <<n, d>> with d > 0 in    *)
(* lowest terms; a pair with d = 0 is a non-finite float (NaN, +inf, -inf).*)
(* Rounding error of binary floating point (about 1e-16 relative) is not   *)
(* modelled; the decimal rounding the code asks for (round(x, 2),          *)
(* round(x, 4)) is.                                                        *)
(***************************************************************************)
EXTENDS Integers, Sequences, FiniteSets, TLC

VARIABLES
    selected,           \* target_weights: the ranked selection (a list of tickers)
    max_single_weight,  \* target_weights: the per-position cap
    top_n,              \* target_weights: the count N
    tw_out,             \* target_weights: what the call returned (or raised)
    holdings,           \* generate_trade_list: {ticker: shares}, CASH included
    last_prices,        \* generate_trade_list: last close per ticker
    target_w,           \* generate_trade_list: the target weight vector
    min_trade_usd,      \* generate_trade_list: the de-noise threshold
    tl_out,             \* generate_trade_list: what the call returned
    prices,             \* compute_signals: the price frame
    sig_out,            \* compute_signals: what the call returned (or raised)
    settings,           \* the settings table: universe, top_n, max_single_weight
    holdings_table,     \* the holdings table: {ticker: shares}
    recommendations,    \* the recommendations table: {ts: payload}
    clock,              \* the latest time datetime.now() has returned
    run,                \* per thread, the run_weekly_recommendation call it is in
    persisted,          \* history: every payload a save has committed
    completed,          \* history: the number of calls that have returned
    large_files,        \* lf2.main: the list of large files, largest first
    files_to_delete,    \* lf2.main: what select_files_to_delete returned
    pc,                 \* lf2.main: the input() the cleaner waits at
    output,             \* lf2.main: the lines the last step printed
    counts,             \* lf2.main: (successful, failed) of the last delete_files
    disk,               \* the files of the Downloads folder
    scanned,            \* history: the files scan_large_files found
    deleted,            \* history: the files os.remove has removed
    confirmed           \* history: the files of a deletion confirmed with DELETE

vars == <<selected, max_single_weight, top_n, tw_out,
          holdings, last_prices, target_w, min_trade_usd, tl_out,
          prices, sig_out,
          settings, holdings_table, recommendations, clock, run,
          persisted, completed,
          large_files, files_to_delete, pc, output, counts, disk, scanned,
          deleted, confirmed>>

allocVars == <<selected, max_single_weight, top_n, tw_out>>
differVars == <<holdings, last_prices, target_w, min_trade_usd, tl_out>>
signalVars == <<prices, sig_out>>
appVars == <<settings, holdings_table, recommendations, clock, run,
             persisted, completed>>
cleanerVars == <<large_files, files_to_delete, pc, output, counts, disk,
                 scanned, deleted, confirmed>>

-----------------------------------------------------------------------------
(* Program constants.                                                      *)

CASH_TICKER == "CASH"

TOP_N == 8

MOMENTUM_LOOKBACK_DAYS == 126

VOL_LOOKBACK_DAYS == 63

\* MIN_PRICE = 5.0
MIN_PRICE == 5

\* np.sqrt(252.0) ** 2: trading days per year, the annualisation factor
\* of the variance.
ANNUALIZATION == 252

-----------------------------------------------------------------------------
(* Floats as exact rationals.                                              *)

Abs(x) == IF x < 0 THEN -x ELSE x

RECURSIVE GCD(_, _)
GCD(a, b) == IF b = 0 THEN a ELSE GCD(b, a % b)

\* The float n/d, in lowest terms with a positive denominator (d # 0).
Q(n, d) ==
    LET g == GCD(Abs(n), Abs(d))
        s == IF d < 0 THEN -1 ELSE 1
    IN  <<s * (n \div g), s * (d \div g)>>

\* float(k) of an integer k
IntQ(k) == <<k, 1>>

Zero == <<0, 1>>
One == <<1, 1>>

\* np.nan
NaN == <<0, 0>>

\* np.isfinite(x)
isfinite(x) == x[2] # 0

RAdd(x, y) == Q(x[1] * y[2] + y[1] * x[2], x[2] * y[2])
RSub(x, y) == Q(x[1] * y[2] - y[1] * x[2], x[2] * y[2])
RMul(x, y) == Q(x[1] * y[1], x[2] * y[2])
\* x / y for y # 0 (Python raises ZeroDivisionError at y = 0: the callers
\* model that case themselves)
RDiv(x, y) == Q(x[1] * y[2], x[2] * y[1])
RNeg(x) == <<-x[1], x[2]>>
RAbs(x) == <<Abs(x[1]), x[2]>>
RLt(x, y) == x[1] * y[2] < y[1] * x[2]
RLe(x, y) == x[1] * y[2] <= y[1] * x[2]
RMin(x, y) == IF RLt(y, x) THEN y ELSE x
RMax(x, y) == IF RLt(x, y) THEN y ELSE x

\* round(x, k) with scale = 10^k: to the nearest multiple of 1/scale, a tie
\* going to the even multiple (Python rounds the exact value of the float;
\* a decimal tie the binary float cannot hold exactly goes to the side the
\* float's error is on).
round(x, scale) ==
    LET num == x[1] * scale
        lo == num \div x[2]
        rem == num - lo * x[2]
        up == IF 2 * rem > x[2] THEN 1
              ELSE IF 2 * rem < x[2] THEN 0
              ELSE lo % 2
    IN  Q(lo + up, scale)

\* sum(d.values()) of a dict d of floats
RECURSIVE SumOver(_, _)
SumOver(f, S) ==
    IF S = {} THEN Zero
    ELSE LET t == CHOOSE u \in S : TRUE
         IN  RAdd(f[t], SumOver(f, S \ {t}))

sum(f) == SumOver(f, DOMAIN f)

\* A call that returned v, and a call that raised the exception exc.
Returned(v) == [raised |-> "", value |-> v]
Raised(exc) == [raised |-> exc, value |-> <<>>]
NotCalled == [raised |-> "not called", value |-> <<>>]
HasReturned(r) == r.raised = ""

-----------------------------------------------------------------------------
(* AllocationBuilder: target_weights.                                      *)

\* the dict comprehension {t: ... for t, c in zip(selected[:n], capped)}:
\* a repeated ticker keeps the value of its last position
DictOfZip(keys, vals) ==
    [t \in {keys[i] : i \in 1..Len(keys)} |->
        vals[CHOOSE i \in 1..Len(keys) :
                /\ keys[i] = t
                /\ \A j \in 1..Len(keys) : keys[j] = t => j <= i]]

\* d[k] = v on a dict d
DictSet(d, k, v) == [t \in DOMAIN d \cup {k} |-> IF t = k THEN v ELSE d[t]]

\* len(selected) == 0
EmptySelectionMissed(sel) == FALSE

EmptySelection(sel) == Len(sel) = 0

\* n = min(len(selected), top_n)
TakeCount(sel, N) == IF Len(sel) < N THEN Len(sel) ELSE N

\* capped = [min(base, max_single_weight) for _ in range(n)], base = 1.0 / n;
\* range(n) is empty for n < 0
Capped(n, cap) == [i \in 1..n |-> RMin(RDiv(One, IntQ(n)), cap)]

\* (c / alloc_sum) without the factor min(1.0, alloc_sum)
RenormalizedUnscaled(c, alloc_sum) == RDiv(c, alloc_sum)

\* (c / alloc_sum) * min(1.0, alloc_sum)
Renormalized(c, alloc_sum) == RMul(RDiv(c, alloc_sum), RMin(One, alloc_sum))

\* the operands of the subtraction swapped
CashResidualSwapped(tw) == RMax(Zero, RSub(sum(tw), One))

\* cash = max(0.0, 1.0 - sum(tw.values()))
CashResidual(tw) == RMax(Zero, RSub(One, sum(tw)))

target_weights(sel, cap, N) ==
    IF EmptySelection(sel) THEN Returned((CASH_TICKER :> One))
    ELSE
    LET n == TakeCount(sel, N)
    IN  IF n = 0 THEN Raised("ZeroDivisionError")
        ELSE
        LET capped == Capped(n, cap)
            alloc_sum == sum(capped)
        IN  IF RLe(alloc_sum, Zero) THEN Returned((CASH_TICKER :> One))
            ELSE
            LET tw == DictOfZip(SubSeq(sel, 1, n),
                                [i \in 1..n |-> Renormalized(capped[i], alloc_sum)])
            IN  Returned(DictSet(tw, CASH_TICKER, CashResidual(tw)))

-----------------------------------------------------------------------------
(* Bounds and input sets of the allocation specification.                  *)

MaxSel == 3

MaxTopN == 5

Instruments == {"AAPL", "MSFT", "NVDA"}

RECURSIVE SeqsUpTo(_, _)
SeqsUpTo(S, k) ==
    IF k = 0 THEN {<<>>}
    ELSE LET shorter == SeqsUpTo(S, k - 1)
         IN  shorter \cup {Append(s, x) : s \in {u \in shorter : Len(u) = k - 1}, x \in S}

Caps == {Q(-1, 5), Zero, Q(1, 5), Q(1, 4), Q(1, 3), Q(1, 2), One, Q(3, 2)}

Counts == (-1)..MaxTopN

IdleAlloc ==
    /\ selected = <<>>
    /\ max_single_weight = Q(1, 5)
    /\ top_n = TOP_N
    /\ tw_out = NotCalled

IdleDiffer ==
    /\ holdings = (CASH_TICKER :> Zero)
    /\ last_prices = <<>>
    /\ target_w = <<>>
    /\ min_trade_usd = Zero
    /\ tl_out = NotCalled

IdleSignals ==
    /\ prices = <<>>
    /\ sig_out = NotCalled

IdleApp ==
    /\ settings = <<>>
    /\ holdings_table = <<>>
    /\ recommendations = <<>>
    /\ clock = 0
    /\ run = <<>>
    /\ persisted = {}
    /\ completed = 0

IdleCleaner ==
    /\ large_files = <<>>
    /\ files_to_delete = <<>>
    /\ pc = "not started"
    /\ output = <<>>
    /\ counts = <<0, 0>>
    /\ disk = {}
    /\ scanned = <<>>
    /\ deleted = {}
    /\ confirmed = {}

InitAlloc ==
    /\ selected \in SeqsUpTo(Instruments, MaxSel)
    /\ max_single_weight \in Caps
    /\ top_n \in Counts
    /\ tw_out = NotCalled
    /\ IdleDiffer
    /\ IdleSignals
    /\ IdleApp
    /\ IdleCleaner

CallTargetWeights ==
    /\ tw_out = NotCalled
    /\ tw_out' = target_weights(selected, max_single_weight, top_n)
    /\ UNCHANGED <<selected, max_single_weight, top_n>>
    /\ UNCHANGED differVars
    /\ UNCHANGED signalVars
    /\ UNCHANGED appVars
    /\ UNCHANGED cleanerVars

NextAlloc == CallTargetWeights

SpecAlloc == InitAlloc /\ [][NextAlloc]_vars

-----------------------------------------------------------------------------
(* PortfolioDiffer: estimate_portfolio_value_usd, current_weights and      *)
(* generate_trade_list.                                                    *)

\* d.get(k, default) on a dict or a pandas Series
Get(d, k, default) == IF k \in DOMAIN d THEN d[k] ELSE default

\* Ticker symbols in the ascending order Python's sorted() gives strings.
TickerOrder == <<"AAPL", "CASH", "MSFT", "NVDA">>

TickerRank(t) == CHOOSE i \in 1..Len(TickerOrder) : TickerOrder[i] = t

\* sorted(tickers) of a set of ticker symbols
RECURSIVE SortedTickers(_)
SortedTickers(S) ==
    IF S = {} THEN <<>>
    ELSE LET t == CHOOSE u \in S : \A v \in S : TickerRank(u) <= TickerRank(v)
         IN  <<t>> \o SortedTickers(S \ {t})

\* what one holding adds to the value: the loop body of
\* estimate_portfolio_value_usd
HoldingValue(t, sh, px) ==
    IF t = CASH_TICKER THEN sh
    ELSE IF isfinite(px) THEN RMul(sh, px)
    ELSE Zero

RECURSIVE ValueOver(_, _, _)
ValueOver(h, p, S) ==
    IF S = {} THEN Zero
    ELSE LET t == CHOOSE u \in S : TRUE
         IN  RAdd(HoldingValue(t, h[t], Get(p, t, NaN)), ValueOver(h, p, S \ {t}))

estimate_portfolio_value_usd(h, p) == ValueOver(h, p, DOMAIN h)

\* a weight for the cash entry alone
WeightedTickersCashOnly(h, p, total) == {t \in DOMAIN h : t = CASH_TICKER}

\* the tickers current_weights gives a weight
WeightedTickers(h, p, total) ==
    {t \in DOMAIN h :
        t = CASH_TICKER \/ (isfinite(Get(p, t, NaN)) /\ RLt(Zero, total))}

\* current_weights returns (total, w)
current_weights(h, p) ==
    LET total == estimate_portfolio_value_usd(h, p)
        w == [t \in WeightedTickers(h, p, total) |->
                IF t = CASH_TICKER
                THEN (IF RLt(Zero, total) THEN RDiv(h[t], total) ELSE Zero)
                ELSE RDiv(RMul(h[t], p[t]), total)]
    IN  [total |-> total, w |-> w]

\* tickers = set(cw.keys() + target_w.keys()) with CASH kept in
TradeTickersWithCash(cw, tgt) == DOMAIN cw \cup DOMAIN tgt

\* tickers = set(cw.keys() + target_w.keys()); tickers.discard(CASH_TICKER)
TradeTickers(cw, tgt) == (DOMAIN cw \cup DOMAIN tgt) \ {CASH_TICKER}

\* delta_usd = (tgt_w - cur_w) * total_value
DeltaUsd(t, cw, tgt, total) ==
    RMul(RSub(Get(tgt, t, Zero), Get(cw, t, Zero)), total)

\* the threshold test applied to nothing
BelowThresholdNever(delta_usd, min_usd) == FALSE

\* abs(delta_usd) < min_trade_usd
BelowThreshold(delta_usd, min_usd) == RLt(RAbs(delta_usd), min_usd)

\* the price test without px <= 0
UnusablePriceFiniteOnly(px) == ~isfinite(px)

\* not np.isfinite(px) or px <= 0
UnusablePrice(px) == ~isfinite(px) \/ RLe(px, Zero)

\* "BUY" if delta_usd >= 0 else "SELL"
ActionOfNonNegative(delta_usd) == IF RLe(Zero, delta_usd) THEN "BUY" ELSE "SELL"

\* "BUY" if delta_usd > 0 else "SELL"
ActionOf(delta_usd) == IF RLt(Zero, delta_usd) THEN "BUY" ELSE "SELL"

\* est_shares from the price over the delta
EstSharesInverted(delta_usd, px) ==
    IF delta_usd[1] = 0 THEN Zero ELSE round(RDiv(px, delta_usd), 10000)

\* round(delta_usd / px, 4)
EstShares(delta_usd, px) == round(RDiv(delta_usd, px), 10000)

\* the dict appended for one traded ticker
TradeRecord(t, delta_usd, px) ==
    [ticker |-> t,
     action |-> ActionOf(delta_usd),
     delta_usd |-> round(delta_usd, 100),
     est_price |-> round(px, 100),
     est_shares |-> EstShares(delta_usd, px)]

\* the loop over sorted(tickers): the trades in the order they are appended
RECURSIVE TradeLoop(_, _, _, _, _, _)
TradeLoop(order, cw, tgt, total, p, min_usd) ==
    IF order = <<>> THEN <<>>
    ELSE LET t == Head(order)
             delta_usd == DeltaUsd(t, cw, tgt, total)
             px == Get(p, t, NaN)
             rest == TradeLoop(Tail(order), cw, tgt, total, p, min_usd)
         IN  IF BelowThreshold(delta_usd, min_usd) THEN rest
             ELSE IF UnusablePrice(px) THEN rest
             ELSE <<TradeRecord(t, delta_usd, px)>> \o rest

\* the sort key with buys first
SortKeyBuysFirst(x) == <<IF x.action = "BUY" THEN 0 ELSE 1, RNeg(RAbs(x.delta_usd))>>

\* the sort key with the smaller magnitude first
SortKeySmallestFirst(x) == <<IF x.action = "SELL" THEN 0 ELSE 1, RAbs(x.delta_usd)>>

\* key=lambda x: (0 if x["action"] == "SELL" else 1, -abs(x["delta_usd"]))
SortKey(x) == <<IF x.action = "SELL" THEN 0 ELSE 1, RNeg(RAbs(x.delta_usd))>>

\* Python's order on the key tuples
KeyLess(a, b) == a[1] < b[1] \/ (a[1] = b[1] /\ RLt(a[2], b[2]))

\* sorted(trades, key=...): stable, equal keys keep their order
RECURSIVE InsertByKey(_, _)
InsertByKey(x, s) ==
    IF s = <<>> THEN <<x>>
    ELSE IF KeyLess(SortKey(x), SortKey(Head(s))) THEN <<x>> \o s
    ELSE <<Head(s)>> \o InsertByKey(x, Tail(s))

RECURSIVE SortedTrades(_)
SortedTrades(s) ==
    IF s = <<>> THEN <<>>
    ELSE InsertByKey(s[Len(s)], SortedTrades(SubSeq(s, 1, Len(s) - 1)))

\* delta_usd / px is reached with px = 0.0 for some ticker: Python raises
\* ZeroDivisionError there
DividesByZero(tickers, cw, tgt, total, p, min_usd) ==
    \E t \in tickers :
        /\ ~BelowThreshold(DeltaUsd(t, cw, tgt, total), min_usd)
        /\ ~UnusablePrice(Get(p, t, NaN))
        /\ Get(p, t, NaN) = Zero

\* generate_trade_list returns (total_value, cw, trades)
generate_trade_list(h, p, tgt, min_usd) ==
    LET cur == current_weights(h, p)
        tickers == TradeTickers(cur.w, tgt)
    IN  IF DividesByZero(tickers, cur.w, tgt, cur.total, p, min_usd)
        THEN Raised("ZeroDivisionError")
        ELSE Returned([total_value |-> cur.total,
                       cw |-> cur.w,
                       trades |-> SortedTrades(
                           TradeLoop(SortedTickers(tickers), cur.w, tgt,
                                     cur.total, p, min_usd))])

-----------------------------------------------------------------------------
(* Bounds and input sets of the differ specification.                      *)

MaxShares == 1

DifferTickers == {"AAPL", "MSFT"}

\* a key the dict does not hold
Absent == <<0, -1>>

ShareChoices == {Absent} \cup {IntQ(k) : k \in (-1)..MaxShares}

PriceChoices == {Absent, NaN, IntQ(-10), Zero, IntQ(3), IntQ(100)}

\* the price frame holds a column named "CASH" when the universe lists the
\* listed company of that symbol
CashPriceChoices == {Absent, IntQ(70)}

TargetChoices == {Absent, Q(1, 3), Q(1, 2)}

CashChoices == {IntQ(-50), Zero, IntQ(60), IntQ(1000)}

ThresholdChoices == {Zero, IntQ(25), Q(333333, 1000)}

\* the dict that holds choice[t] for the tickers whose choice is not Absent
DictOf(choice) == [t \in {u \in DOMAIN choice : choice[u] # Absent} |-> choice[t]]

\* a target vector, with the cash entry that makes it sum to 1 or without one
TargetOf(choice, withCash) ==
    LET tgt == DictOf(choice)
    IN  IF withCash THEN DictSet(tgt, CASH_TICKER, RSub(One, sum(tgt))) ELSE tgt

InitDiffer ==
    /\ \E sh \in [DifferTickers -> ShareChoices], cash \in CashChoices :
            holdings = DictSet(DictOf(sh), CASH_TICKER, cash)
    /\ \E px \in [DifferTickers -> PriceChoices], cpx \in CashPriceChoices :
            last_prices = DictOf([t \in DifferTickers \cup {CASH_TICKER} |->
                                    IF t = CASH_TICKER THEN cpx ELSE px[t]])
    /\ \E tg \in [DifferTickers -> TargetChoices], withCash \in BOOLEAN :
            target_w = TargetOf(tg, withCash)
    /\ min_trade_usd \in ThresholdChoices
    /\ tl_out = NotCalled
    /\ IdleAlloc
    /\ IdleSignals
    /\ IdleApp
    /\ IdleCleaner

CallGenerateTradeList ==
    /\ tl_out = NotCalled
    /\ tl_out' = generate_trade_list(holdings, last_prices, target_w, min_trade_usd)
    /\ UNCHANGED <<holdings, last_prices, target_w, min_trade_usd>>
    /\ UNCHANGED allocVars
    /\ UNCHANGED signalVars
    /\ UNCHANGED appVars
    /\ UNCHANGED cleanerVars

NextDiffer == CallGenerateTradeList

SpecDiffer == InitDiffer /\ [][NextDiffer]_vars

-----------------------------------------------------------------------------
(* SignalEngine: compute_signals.                                          *)
(*                                                                         *)
(* A price frame is [columns, rows, data]: the column tickers in the       *)
(* frame's column order, the number of rows (trading days), and per        *)
(* ticker the column's values, oldest first, NaN where a value is missing. *)

\* prices.ffill().iloc[-1] of one column: its last value that is not NaN,
\* NaN when it has none
LastFilled(col) ==
    IF \A i \in 1..Len(col) : col[i] = NaN THEN NaN
    ELSE col[CHOOSE i \in 1..Len(col) :
                /\ col[i] # NaN
                /\ \A j \in (i + 1)..Len(col) : col[j] = NaN]

\* last_prices >= MIN_PRICE (False on NaN)
AtLeastMinPrice(px) == px # NaN /\ RLe(IntQ(MIN_PRICE), px)

\* the column holds NaN somewhere
HasMissing(col) == \E i \in 1..Len(col) : col[i] = NaN

\* valid = last_prices[last_prices >= MIN_PRICE].index.tolist(), in the
\* frame's column order
RECURSIVE ValidAmong(_, _)
ValidAmong(cols, data) ==
    IF cols = <<>> THEN <<>>
    ELSE (IF AtLeastMinPrice(LastFilled(data[Head(cols)]))
          THEN <<Head(cols)>> ELSE <<>>) \o ValidAmong(Tail(cols), data)

ValidColumns(f) == ValidAmong(f.columns, f.data)

\* .dropna(axis=1, how="any"): the columns with a NaN anywhere go
RECURSIVE CompleteAmong(_, _)
CompleteAmong(cols, data) ==
    IF cols = <<>> THEN <<>>
    ELSE (IF HasMissing(data[Head(cols)])
          THEN <<>> ELSE <<Head(cols)>>) \o CompleteAmong(Tail(cols), data)

\* prices[valid].dropna(axis=1, how="any")
CleanColumns(f) == CompleteAmong(ValidColumns(f), f.data)

Max(a, b) == IF a < b THEN b ELSE a

\* the history test without the 5 extra days
NotEnoughHistoryNoMargin(rows) ==
    rows < Max(MOMENTUM_LOOKBACK_DAYS, VOL_LOOKBACK_DAYS)

\* len(prices) < max(Lm, Lv) + 5
NotEnoughHistory(rows) ==
    rows < Max(MOMENTUM_LOOKBACK_DAYS, VOL_LOOKBACK_DAYS) + 5

\* mom = prices.iloc[-1] / prices.iloc[-Lm] - 1.0 of one column
Momentum(col) ==
    RSub(RDiv(col[Len(col)], col[Len(col) - MOMENTUM_LOOKBACK_DAYS + 1]), One)

\* rets = prices.pct_change().dropna() of one column: the first row, which
\* has no previous day, is the one dropped
Returns(col) == [i \in 1..(Len(col) - 1) |-> RSub(RDiv(col[i + 1], col[i]), One)]

\* rets.tail(Lv)
TailRows(s, k) == IF Len(s) <= k THEN s ELSE SubSeq(s, Len(s) - k + 1, Len(s))

\* the sum of s[lo..hi]
RECURSIVE SumRange(_, _, _)
SumRange(s, lo, hi) ==
    IF lo > hi THEN Zero
    ELSE IF lo = hi THEN s[lo]
    ELSE LET mid == (lo + hi) \div 2
         IN  RAdd(SumRange(s, lo, mid), SumRange(s, mid + 1, hi))

SumSeq(s) == SumRange(s, 1, Len(s))

\* the square of Series.std() (ddof = 1); NaN for fewer than 2 values
SampleVariance(s) ==
    IF Len(s) < 2 THEN NaN
    ELSE LET n == IntQ(Len(s))
             total == SumSeq(s)
             squares == SumSeq([i \in 1..Len(s) |-> RMul(s[i], s[i])])
         IN  RDiv(RSub(squares, RDiv(RMul(total, total), n)), IntQ(Len(s) - 1))

\* the square of vol = rets.tail(Lv).std() * np.sqrt(252.0), and NaN for
\* a vol of 0 (vol.replace(0, np.nan)). The volatility is irrational in
\* general: the model holds its square.
VolSquared(col) ==
    LET var == SampleVariance(TailRows(Returns(col), VOL_LOOKBACK_DAYS))
    IN  IF var = NaN \/ var = Zero THEN NaN ELSE RMul(var, IntQ(ANNUALIZATION))

\* score = mom / vol, held as sign(score) * score^2, which orders and ties
\* exactly as the score does; NaN when vol is NaN
Score(mom, volsq) ==
    IF volsq = NaN THEN NaN
    ELSE RMul(IntQ(IF mom[1] < 0 THEN -1 ELSE 1), RDiv(RMul(mom, mom), volsq))

\* one row of the DataFrame out
SignalRow(t, col) ==
    LET mom == Momentum(col)
        volsq == VolSquared(col)
    IN  [ticker |-> t, momentum |-> mom, vol_squared |-> volsq,
         score |-> Score(mom, volsq)]

\* out without its .dropna(): every row stays
DropNaRowsKeepAll(rows) == rows

\* .dropna(): the rows with a NaN in them go
RECURSIVE DropNaRows(_)
DropNaRows(rows) ==
    IF rows = <<>> THEN <<>>
    ELSE (IF Head(rows).score = NaN \/ Head(rows).vol_squared = NaN
             \/ Head(rows).momentum = NaN
          THEN <<>> ELSE <<Head(rows)>>) \o DropNaRows(Tail(rows))

\* the row order with ascending=True
RanksBeforeAscending(a, b) == RLt(a.score, b.score)

\* a goes before b under sort_values("score", ascending=False)
RanksBefore(a, b) == RLt(b.score, a.score)

\* .sort_values("score", ascending=False): rows of equal score are left in
\* the order they had, which is the frame's column order (pandas reverses,
\* sorts ascending and reverses again; numpy's default sort of a short
\* array is an insertion sort)
RECURSIVE InsertByScore(_, _)
InsertByScore(x, s) ==
    IF s = <<>> THEN <<x>>
    ELSE IF RanksBefore(x, Head(s)) THEN <<x>> \o s
    ELSE <<Head(s)>> \o InsertByScore(x, Tail(s))

RECURSIVE SortByScore(_)
SortByScore(s) ==
    IF s = <<>> THEN <<>>
    ELSE InsertByScore(s[Len(s)], SortByScore(SubSeq(s, 1, Len(s) - 1)))

\* compute_signals returns the DataFrame out as the list of its rows
compute_signals(f) ==
    IF f.rows = 0 THEN Raised("IndexError")
    ELSE
    LET cols == CleanColumns(f)
    IN  IF Len(cols) = 0 THEN Returned(<<>>)
        ELSE IF NotEnoughHistory(f.rows) THEN Returned(<<>>)
        ELSE Returned(SortByScore(DropNaRows(
                [i \in 1..Len(cols) |-> SignalRow(cols[i], f.data[cols[i]])])))

-----------------------------------------------------------------------------
(* Bounds and input sets of the signal specification.                      *)

\* rows beyond the shortest sufficient history
ExtraRows == 0

\* the shortest history compute_signals ranks
SufficientRows == Max(MOMENTUM_LOOKBACK_DAYS, VOL_LOOKBACK_DAYS) + 5

RowChoices == {1, SufficientRows - 1} \cup (SufficientRows..(SufficientRows + ExtraRows))

\* A column shape: price p0 up to `back` rows before the end, p1 after
\* that, p2 on the last row; gap says which rows are missing.
Shape(p0, p1, p2, back, gap) == [p0 |-> p0, p1 |-> p1, p2 |-> p2, back |-> back, gap |-> gap]

\* shapes that get a score
RankedShapes ==
    { Shape(10, 10, 12, 100, "none"),    \* one rise on the last day
      Shape(10, 20, 30, 100, "none"),    \* two rises
      Shape(10, 10, 8, 100, "none") }    \* one fall on the last day

Shapes ==
    RankedShapes \cup
    { Shape(10, 10, 10, 100, "none"),    \* flat: zero volatility
      Shape(10, 20, 30, MOMENTUM_LOOKBACK_DAYS, "none"),
      Shape(4, 4, 3, 100, "none"),       \* below MIN_PRICE
      Shape(10, 10, 12, 100, "first"),   \* the oldest day is missing
      Shape(10, 10, 12, 100, "last"),    \* the latest day is missing
      Shape(10, 10, 12, 100, "all") }    \* no data for the ticker

\* the column of a shape, over the given number of rows
ColumnOf(sh, rows) ==
    [i \in 1..rows |->
        IF \/ sh.gap = "all"
           \/ (sh.gap = "first" /\ i = 1)
           \/ (sh.gap = "last" /\ i = rows)
        THEN NaN
        ELSE IF i = rows THEN IntQ(sh.p2)
        ELSE IF i > rows - sh.back THEN IntQ(sh.p1)
        ELSE IntQ(sh.p0)]

\* the lists of distinct tickers: the column orders of a frame
RECURSIVE DistinctSeqs(_)
DistinctSeqs(S) ==
    {<<>>} \cup UNION {{<<x>> \o s : s \in DistinctSeqs(S \ {x})} : x \in S}

\* the frame whose i-th column is cols[i], of shape shapes[i]
FrameOf(cols, rows, shapes) ==
    [columns |-> cols, rows |-> rows,
     data |-> [t \in {cols[i] : i \in 1..Len(cols)} |->
                ColumnOf(shapes[CHOOSE i \in 1..Len(cols) : cols[i] = t], rows)]]

\* the frames of one column order: every shape per column for up to two
\* columns, the ranked shapes for three
FramesOver(cols) ==
    {FrameOf(cols, rows, shapes) :
        rows \in RowChoices,
        shapes \in [1..Len(cols) -> IF Len(cols) > 2 THEN RankedShapes ELSE Shapes]}

Frames == UNION {FramesOver(cols) : cols \in DistinctSeqs(Instruments) \ {<<>>}}

\* download_prices ends with prices.dropna(how="all"), and
\* run_weekly_recommendation returns early on prices.empty: a frame that
\* reaches compute_signals has a column, a row, and no row that is all NaN
ReachesSignals(f) ==
    /\ Len(f.columns) > 0
    /\ f.rows > 0
    /\ \A i \in 1..f.rows : \E t \in DOMAIN f.data : f.data[t][i] # NaN

InitSignals ==
    /\ prices \in {f \in Frames : ReachesSignals(f)}
    /\ sig_out = NotCalled
    /\ IdleAlloc
    /\ IdleDiffer
    /\ IdleApp
    /\ IdleCleaner

CallComputeSignals ==
    /\ sig_out = NotCalled
    /\ sig_out' = compute_signals(prices)
    /\ UNCHANGED prices
    /\ UNCHANGED allocVars
    /\ UNCHANGED differVars
    /\ UNCHANGED appVars
    /\ UNCHANGED cleanerVars

NextSignals == CallComputeSignals

SpecSignals == InitSignals /\ [][NextSignals]_vars

-----------------------------------------------------------------------------
(* Claims about target_weights, checked under SpecAlloc.                   *)

\* |x - y| <= 1e-9
WithinTolerance(x, y) ==
    LET diff == RAbs(RSub(x, y))
    IN  diff[1] = 0 \/ diff[2] \div diff[1] >= 1000000000

\* 0 < cap <= 1
CapInRange(cap) == RLt(Zero, cap) /\ RLe(cap, One)

HasDuplicate(s) == \E i, j \in 1..Len(s) : i < j /\ s[i] = s[j]

\* C1: for every selection (any length, duplicates allowed), every count
\* N >= 1 and every cap in (0,1], the weight vector target_weights returns
\* has fractions, the cash entry included, that sum to 1 within 1e-9.
C1_WeightsSumToOne ==
    (tw_out # NotCalled /\ top_n >= 1 /\ CapInRange(max_single_weight)) =>
        /\ HasReturned(tw_out)
        /\ WithinTolerance(sum(tw_out.value), One)

\* C1 happens: a selection with a repeated ticker, the cap binding, cash
\* taking the shortfall.
C1_Witness ==
    /\ HasReturned(tw_out)
    /\ top_n >= 1
    /\ CapInRange(max_single_weight)
    /\ HasDuplicate(SubSeq(selected, 1, TakeCount(selected, top_n)))
    /\ RLt(Zero, tw_out.value[CASH_TICKER])
    /\ Cardinality(DOMAIN tw_out.value) >= 3

\* C2: for an empty selection target_weights returns exactly {CASH: 1.0},
\* for every cap and every count N, N <= 0 included.
C2_EmptySelectionAllCash ==
    (tw_out # NotCalled /\ selected = <<>>) =>
        tw_out = Returned((CASH_TICKER :> One))

\* C2 happens with a count and a cap that are invalid for a non-empty
\* selection.
C2_Witness ==
    /\ selected = <<>>
    /\ top_n = 0
    /\ RLe(max_single_weight, Zero)
    /\ tw_out = Returned((CASH_TICKER :> One))

\* the ticker list has no repeated ticker
Distinct(s) == \A i, j \in 1..Len(s) : i # j => s[i] # s[j]

\* C3: for a non-empty selection of distinct instruments, N >= 1 and cap in
\* (0,1], with n = min(|selection|, N): each of the first n instruments gets
\* exactly min(1/n, cap), later instruments get no entry, and cash gets
\* 1 - n * min(1/n, cap).
C3_CappedEqualWeights ==
    (/\ tw_out # NotCalled
     /\ selected # <<>>
     /\ Distinct(selected)
     /\ top_n >= 1
     /\ CapInRange(max_single_weight)) =>
        LET n == IF Len(selected) < top_n THEN Len(selected) ELSE top_n
            w == RMin(Q(1, n), max_single_weight)
        IN  /\ HasReturned(tw_out)
            /\ DOMAIN tw_out.value = {selected[i] : i \in 1..n} \cup {CASH_TICKER}
            /\ \A i \in 1..n : tw_out.value[selected[i]] = w
            /\ \A i \in 1..n : RLe(tw_out.value[selected[i]], max_single_weight)
            /\ tw_out.value[CASH_TICKER] = RSub(One, RMul(IntQ(n), w))

\* C3 happens: selection [AAPL, MSFT, NVDA], N = 5, cap = 0.20 gives 0.2
\* each and cash 0.4.
C3_Witness ==
    /\ selected = <<"AAPL", "MSFT", "NVDA">>
    /\ top_n = 5
    /\ max_single_weight = Q(1, 5)
    /\ tw_out = Returned([t \in {"AAPL", "MSFT", "NVDA", CASH_TICKER} |->
                             IF t = CASH_TICKER THEN Q(2, 5) ELSE Q(1, 5)])

\* C3 also cuts the selection: an instrument after the first n has no entry.
C3_WitnessCut ==
    /\ HasReturned(tw_out)
    /\ Distinct(selected)
    /\ top_n >= 1
    /\ top_n < Len(selected)
    /\ CapInRange(max_single_weight)
    /\ selected[Len(selected)] \notin DOMAIN tw_out.value

-----------------------------------------------------------------------------
(* Claims about generate_trade_list, checked under SpecDiffer.             *)

\* the trade list of the call
Trades == tl_out.value.trades

\* (target_i - current_i) * total_value of ticker t, before any rounding,
\* from the call's inputs and the current weights it returned
RawDelta(t) ==
    RMul(RSub(IF t \in DOMAIN target_w THEN target_w[t] ELSE Zero,
              IF t \in DOMAIN tl_out.value.cw THEN tl_out.value.cw[t] ELSE Zero),
         tl_out.value.total_value)

\* the ticker has a finite, strictly positive last price
HasValidPrice(t) ==
    /\ t \in DOMAIN last_prices
    /\ last_prices[t][2] # 0
    /\ last_prices[t][1] > 0

\* C4 as stated: every instruction carries a (rounded) delta_usd whose
\* absolute value is at least min_trade_usd.
C4_ReportedDeltaAtLeastThreshold ==
    HasReturned(tl_out) =>
        \A i \in 1..Len(Trades) : RLe(min_trade_usd, RAbs(Trades[i].delta_usd))

\* C4 amended: the unrounded delta of every instruction is at least
\* min_trade_usd in absolute value, and the reported delta_usd, which is
\* that value rounded to 2 decimals, is at least min_trade_usd rounded to
\* 2 decimals in absolute value.
C4_UnroundedDeltaAtLeastThreshold ==
    HasReturned(tl_out) =>
        \A i \in 1..Len(Trades) :
            /\ RLe(min_trade_usd, RAbs(RawDelta(Trades[i].ticker)))
            /\ Trades[i].delta_usd = round(RawDelta(Trades[i].ticker), 100)
            /\ RLe(round(min_trade_usd, 100), RAbs(Trades[i].delta_usd))

\* C4 happens: one delta passes a positive threshold and is traded, another
\* ticker with a valid price and a nonzero delta is dropped by it.
C4_Witness ==
    /\ HasReturned(tl_out)
    /\ RLt(Zero, min_trade_usd)
    /\ holdings[CASH_TICKER] = IntQ(1000)
    /\ \A t \in DOMAIN holdings : RLe(Zero, holdings[t])
    /\ Len(Trades) = 1
    /\ \E t \in DifferTickers :
            /\ HasValidPrice(t)
            /\ RawDelta(t)[1] # 0
            /\ RLt(RAbs(RawDelta(t)), min_trade_usd)

\* C5: no BUY instruction appears at an earlier position than a SELL
\* instruction.
C5_SellsBeforeBuys ==
    HasReturned(tl_out) =>
        \A i, j \in 1..Len(Trades) :
            i < j => ~(Trades[i].action = "BUY" /\ Trades[j].action = "SELL")

\* C5 happens: a SELL and a BUY in one list, the SELL of the ticker that
\* sorts after the BUY's.
C5_Witness ==
    /\ HasReturned(tl_out)
    /\ holdings[CASH_TICKER] = IntQ(1000)
    /\ \A t \in DOMAIN holdings : RLe(Zero, holdings[t])
    /\ Len(Trades) = 2
    /\ Trades[1].action = "SELL"
    /\ Trades[1].delta_usd[1] < 0
    /\ Trades[1].ticker = "MSFT"
    /\ Trades[2].action = "BUY"
    /\ Trades[2].ticker = "AAPL"

\* C6: the cash pseudo-instrument is never the instrument of a trade
\* instruction.
C6_CashNeverTraded ==
    HasReturned(tl_out) =>
        \A i \in 1..Len(Trades) : Trades[i].ticker # CASH_TICKER

\* C6 happens: cash is held, its target fraction differs from its current
\* one by more than the threshold, a price is quoted for the symbol CASH,
\* and the list trades something else.
C6_Witness ==
    /\ HasReturned(tl_out)
    /\ holdings[CASH_TICKER] = IntQ(1000)
    /\ \A t \in DOMAIN holdings : RLe(Zero, holdings[t])
    /\ Len(Trades) >= 1
    /\ CASH_TICKER \in DOMAIN target_w
    /\ HasValidPrice(CASH_TICKER)
    /\ RLe(min_trade_usd, RAbs(RawDelta(CASH_TICKER)))
    /\ RLt(Zero, RAbs(RawDelta(CASH_TICKER)))

\* C7: an instrument whose last price is missing, non-finite or
\* non-positive produces no trade instruction, whatever its target weight,
\* its held quantity and its delta.
C7_NoTradeWithoutValidPrice ==
    tl_out # NotCalled =>
        /\ HasReturned(tl_out)
        /\ \A i \in 1..Len(Trades) : HasValidPrice(Trades[i].ticker)

\* C7 happens: a ticker with no valid price has a target weight and a delta
\* above the threshold and is not traded, while the other ticker is.
C7_Witness ==
    /\ HasReturned(tl_out)
    /\ holdings[CASH_TICKER] = IntQ(1000)
    /\ \A t \in DOMAIN holdings : RLe(Zero, holdings[t])
    /\ Len(Trades) = 1
    /\ \E t \in DifferTickers :
            /\ ~HasValidPrice(t)
            /\ t \in DOMAIN target_w
            /\ RLt(Zero, RAbs(RawDelta(t)))
            /\ RLe(min_trade_usd, RAbs(RawDelta(t)))
            /\ Trades[1].ticker # t

\* the sign of a float: -1, 0 or 1
Sign(x) == IF x[1] > 0 THEN 1 ELSE IF x[1] < 0 THEN -1 ELSE 0

\* C8 as stated: every instruction has delta_usd = (target - current) *
\* total_value, is a BUY exactly when delta_usd > 0, and has est_shares =
\* delta_usd / price with the sign of delta_usd.
C8_ExactDeltaAndShares ==
    HasReturned(tl_out) =>
        \A i \in 1..Len(Trades) :
            LET x == Trades[i]
            IN  /\ x.delta_usd = RawDelta(x.ticker)
                /\ (x.action = "BUY") <=> RLt(Zero, x.delta_usd)
                /\ x.action \in {"BUY", "SELL"}
                /\ x.est_shares = RDiv(x.delta_usd, last_prices[x.ticker])
                /\ Sign(x.est_shares) = Sign(x.delta_usd)

\* C8 amended: with d = (target - current) * total_value unrounded, every
\* instruction has delta_usd = d rounded to 2 decimals, is a BUY exactly
\* when d > 0 and a SELL otherwise, and has est_shares = d / price rounded
\* to 4 decimals, whose sign is that of d or zero.
C8_RoundedDeltaAndShares ==
    HasReturned(tl_out) =>
        \A i \in 1..Len(Trades) :
            LET x == Trades[i]
                d == RawDelta(x.ticker)
            IN  /\ x.delta_usd = round(d, 100)
                /\ (x.action = "BUY") <=> RLt(Zero, d)
                /\ x.action \in {"BUY", "SELL"}
                /\ x.est_shares = round(RDiv(d, last_prices[x.ticker]), 10000)
                /\ Sign(x.est_shares) \in {Sign(d), 0}

\* C8 happens: holdings {CASH: 1000}, target {AAPL: 0.5, CASH: 0.5},
\* price(AAPL) = 100 give total_value 1000 and the one instruction
\* BUY AAPL, delta_usd 500, est_shares 5.0.
C8_Witness ==
    /\ holdings = (CASH_TICKER :> IntQ(1000))
    /\ target_w = ("AAPL" :> Q(1, 2)) @@ (CASH_TICKER :> Q(1, 2))
    /\ last_prices = ("AAPL" :> IntQ(100))
    /\ HasReturned(tl_out)
    /\ tl_out.value.total_value = IntQ(1000)
    /\ Trades = <<[ticker |-> "AAPL", action |-> "BUY", delta_usd |-> IntQ(500),
                   est_price |-> IntQ(100), est_shares |-> IntQ(5)]>>

-----------------------------------------------------------------------------
(* Claims about compute_signals, checked under SpecSignals.                *)

\* the signal list of the call
Signals == sig_out.value

\* the column of ticker t has no missing value and ends at or above the
\* price floor
Complete(t) ==
    /\ t \in DOMAIN prices.data
    /\ \A i \in 1..prices.rows : prices.data[t][i] # NaN
    /\ prices.data[t][prices.rows][1] >= MIN_PRICE * prices.data[t][prices.rows][2]

\* ... and its price moved on the last day, all the days before in the
\* volatility window being equal: with enough history its volatility is
\* not zero and it is ranked
Rankable(t) ==
    /\ Complete(t)
    /\ prices.rows > VOL_LOOKBACK_DAYS
    /\ prices.data[t][prices.rows] # prices.data[t][prices.rows - 1]
    /\ \A i \in (prices.rows - VOL_LOOKBACK_DAYS)..(prices.rows - 1) :
            prices.data[t][i] = prices.data[t][prices.rows - 1]

C10_SortedTiesByIdentifier ==
    HasReturned(sig_out) =>
        \A i, j \in 1..Len(Signals) :
            i < j =>
                \/ RLt(Signals[j].score, Signals[i].score)
                \/ /\ Signals[i].score = Signals[j].score
                   /\ TickerRank(Signals[i].ticker) < TickerRank(Signals[j].ticker)

\* C10 amended: the list is sorted by score descending and holds each
\* ranked instrument once; instruments of equal score are in no identifier
\* order.
C10_SortedByScore ==
    HasReturned(sig_out) =>
        /\ \A i, j \in 1..Len(Signals) :
                i < j => RLe(Signals[j].score, Signals[i].score)
        /\ \A i, j \in 1..Len(Signals) :
                i # j => Signals[i].ticker # Signals[j].ticker
        /\ \A i \in 1..Len(Signals) : Complete(Signals[i].ticker)
        /\ ~NotEnoughHistory(prices.rows) =>
                \A t \in DOMAIN prices.data :
                    Rankable(t) => \E i \in 1..Len(Signals) : Signals[i].ticker = t

\* C10 happens: three signals, a strict step and a tie among them, and the
\* best score not in the frame's first column.
C10_Witness ==
    /\ HasReturned(sig_out)
    /\ Len(Signals) = 3
    /\ RLt(Signals[2].score, Signals[1].score)
    /\ Signals[2].score = Signals[3].score
    /\ prices.columns[1] # Signals[1].ticker


-----------------------------------------------------------------------------
(* The application: the tables of app.db, the request handlers and         *)
(* run_weekly_recommendation.                                              *)
(*                                                                         *)
(* A string that is read as a number (a form field, a settings value) is   *)
(* modelled by what float() makes of it: Str(x) is a string float() turns  *)
(* into the float x, NotANumber is a string float() rejects with           *)
(* ValueError, FieldMissing is a form field the request does not carry.    *)

MAX_SINGLE_WEIGHT == Q(1, 5)

\* float("inf") and float("-inf")
PosInf == <<1, 0>>
NegInf == <<-1, 0>>

\* str(x) of a number x, and every string float() parses to x
Str(x) == [kind |-> "number", float |-> x]

NotANumber == [kind |-> "text", float |-> NaN]

FieldMissing == [kind |-> "missing", float |-> NaN]

\* request.form.get(name, default)
FormGet(field, default) == IF field.kind = "missing" THEN default ELSE field

\* float(s) raises ValueError
FloatRaises(s) == s.kind # "number"

\* float(s)
float(s) == s.float

\* int(x) raises: ValueError on NaN, OverflowError on an infinity
IntRaises(x) == ~isfinite(x)

\* int(x) of a finite float: truncation toward zero
int(x) == IF x[1] < 0 THEN -((-x[1]) \div x[2]) ELSE x[1] \div x[2]

\* min(hi, i) without the upper limit
ClampTopNUnbounded(i) == Max(1, i)

\* max(1, min(50, i))
ClampTopN(i) == Max(1, IF i < 50 THEN i ELSE 50)

\* max(0.01, min(1.0, w)): a NaN is not below 1.0, so min gives 1.0
ClampWeight(w) == RMax(Q(1, 100), RMin(One, w))

DEFAULT_UNIVERSE ==
    <<"AAPL", "MSFT", "NVDA", "AMZN", "GOOGL", "META", "BRK-B", "JPM", "LLY",
      "AVGO", "XOM", "UNH", "V", "PG", "MA", "COST", "HD", "MRK", "ADBE",
      "PEP", "KO", "WMT", "CRM", "ABBV", "BAC", "TMO", "CSCO", "ACN", "MCD",
      "NFLX">>

\* One comma-separated piece of the universe field: symbol is what
\* t.strip().upper().replace(" ", "") makes of it, length the length of
\* that, and blank says that t.strip() is empty.
Piece(symbol, length) == [symbol |-> symbol, length |-> length, blank |-> length = 0]

\* [t... for t in universe_raw.split(",") if t.strip()], then the pieces
\* of at most 10 characters
RECURSIVE ParsedUniverse(_)
ParsedUniverse(pieces) ==
    IF pieces = <<>> THEN <<>>
    ELSE (IF ~Head(pieces).blank /\ Head(pieces).length <= 10
          THEN <<Head(pieces).symbol>> ELSE <<>>) \o ParsedUniverse(Tail(pieces))

\* the universe row after lines 395-400: a field without a piece that is
\* not blank parses to no ticker, whether or not universe_raw.strip() is
\* empty
UniverseAfter(old, pieces) ==
    IF Len(ParsedUniverse(pieces)) >= 5 THEN ParsedUniverse(pieces) ELSE old

\* the top_n row after lines 403-407
TopNAfter(old, field) ==
    LET s == FormGet(field, Str(IntQ(TOP_N)))
    IN  IF FloatRaises(s) THEN old
        ELSE IF IntRaises(float(s)) THEN old
        ELSE Str(IntQ(ClampTopN(int(float(s)))))

\* the max_single_weight row after lines 409-414
WeightAfter(old, field) ==
    LET s == FormGet(field, Str(MAX_SINGLE_WEIGHT))
    IN  IF FloatRaises(s) THEN old ELSE Str(ClampWeight(float(s)))

\* POST /settings
update_settings(form) ==
    /\ settings' = [universe |-> UniverseAfter(settings.universe, form.universe),
                    top_n |-> TopNAfter(settings.top_n, form.top_n),
                    max_single_weight |->
                        WeightAfter(settings.max_single_weight, form.max_single_weight)]
    /\ UNCHANGED <<holdings_table, recommendations, clock, run, persisted, completed>>
    /\ UNCHANGED <<allocVars, differVars, signalVars>>
    /\ UNCHANGED cleanerVars

\* POST /holdings: form.ticker is request.form.get("ticker", "").upper().strip()
update_holdings(form) ==
    /\ holdings_table' =
            IF form.ticker = "" THEN holdings_table
            ELSE IF FloatRaises(form.shares) THEN holdings_table
            ELSE DictSet(holdings_table, form.ticker, float(form.shares))
    /\ UNCHANGED <<settings, recommendations, clock, run, persisted, completed>>
    /\ UNCHANGED <<allocVars, differVars, signalVars>>
    /\ UNCHANGED cleanerVars


-----------------------------------------------------------------------------
(* download_prices.                                                        *)

\* the columns (t, "Close") of df for t in tickers, in the order of tickers
RECURSIVE ClosesAmong(_, _)
ClosesAmong(tickers, df) ==
    IF tickers = <<>> THEN <<>>
    ELSE (IF Head(tickers) \in DOMAIN df.data THEN <<Head(tickers)>> ELSE <<>>)
         \o ClosesAmong(Tail(tickers), df)

\* prices = pd.DataFrame(closes); a df without a Close column gives the
\* frame without columns, pd.DataFrame(). (The branch for plain columns
\* serves a universe of one ticker; the settings hold 5 tickers or more.)
Closes(df, tickers) ==
    LET cols == ClosesAmong(tickers, df)
    IN  [columns |-> cols,
         rows |-> IF cols = <<>> THEN 0 ELSE df.rows,
         data |-> [t \in {cols[i] : i \in 1..Len(cols)} |-> df.data[t]]]

\* the rows of f that hold a value in some column
KeptRows(f) == {i \in 1..f.rows : \E t \in DOMAIN f.data : f.data[t][i] # NaN}

\* prices.dropna(how="all")
DropAllNaRows(f) ==
    LET keep == KeptRows(f)
    IN  IF keep = 1..f.rows THEN f
        ELSE [columns |-> f.columns,
              rows |-> Cardinality(keep),
              data |-> [t \in DOMAIN f.data |->
                    [k \in 1..Cardinality(keep) |->
                        f.data[t][CHOOSE i \in keep :
                                    Cardinality({j \in keep : j <= i}) = k]]]]

\* download_prices(tickers, start, end), given what yf.download returned
download_prices(df, tickers) == DropAllNaRows(Closes(df, tickers))

\* prices.empty taken to be False
IsEmptyNever(f) == FALSE

\* prices.empty: no row or no column
IsEmpty(f) == f.rows = 0 \/ Len(f.columns) = 0

-----------------------------------------------------------------------------
(* run_weekly_recommendation and save_recommendation.                      *)

NO_DATA_ERROR == "No price data returned. yfinance can fail or rate-limit."

NOTES ==
    <<"This is a naive momentum/volatility screen. It is not a guarantee of performance.",
      "Trade list ignores taxes, spreads, slippage, liquidity, corporate actions, and broker constraints.",
      "If you want auto-trading, add broker integration plus hard risk controls and testing.">>

\* the default of min_trade_usd
MIN_TRADE_USD == IntQ(25)

\* signals["ticker"].head(n).tolist() and signals.head(n): the first n
\* rows, all but the last -n rows for a negative n
HeadRows(s, n) ==
    IF n >= 0 THEN SubSeq(s, 1, IF n < Len(s) THEN n ELSE Len(s))
    ELSE SubSeq(s, 1, Max(0, Len(s) + n))

\* signals["ticker"].head(top_n).tolist()
SelectedOf(signals, n) ==
    LET top == HeadRows(signals, n)
    IN  [i \in 1..Len(top) |-> top[i].ticker]

\* prices.ffill().iloc[-1]
LastPrices(f) == [t \in DOMAIN f.data |-> LastFilled(f.data[t])]

\* {k: round(v, 4) for k, v in w.items()}
RoundedWeights(w) == [k \in DOMAIN w |-> round(w[k], 10000)]

\* the payload of lines 312-315
NoDataPayload(ts) == [ts |-> ts, error |-> NO_DATA_ERROR]

\* the payload of lines 328-342
Payload(ts, universe, sel, signals, total_value, cw, tw, trades) ==
    [ts |-> ts,
     universe_size |-> Len(universe),
     selected |-> sel,
     signals_top |-> HeadRows(signals, 15),
     portfolio_value_est |-> round(total_value, 100),
     current_weights |-> RoundedWeights(cw),
     target_weights |-> RoundedWeights(tw),
     trades |-> trades,
     notes |-> NOTES]

\* The threads that call run_weekly_recommendation: a request thread of
\* the web server (POST /run) and the scheduler's job thread.
Threads == {"run_now", "scheduler"}

\* the locals of a call that has not started
NoRun ==
    [pc |-> "idle", universe |-> <<>>, top_n |-> 0, max_single_weight |-> Zero,
     prices |-> <<>>, signals |-> <<>>, selected |-> <<>>, last_prices |-> <<>>,
     holdings |-> <<>>, payload |-> <<>>,
     \* history of the call: the functions it has called, the payloads it
     \* has passed to save_recommendation, what it returned or raised
     calls |-> {}, handed |-> <<>>, result |-> NotCalled, invocation |-> 0]

Finished(r) == run[r].pc \in {"returned", "raised"}

\* the call of thread r raises exc: nothing in run_weekly_recommendation
\* catches it, and its locals are gone
Raise(r, exc, called) ==
    run' = [run EXCEPT ![r] = [NoRun EXCEPT !.pc = "raised",
                                            !.calls = run[r].calls \cup called,
                                            !.handed = run[r].handed,
                                            !.result = Raised(exc),
                                            !.invocation = run[r].invocation]]


\* the calls of run_weekly_recommendation started so far
RECURSIVE InvocationsOf(_)
InvocationsOf(S) ==
    IF S = {} THEN 0
    ELSE LET r == CHOOSE u \in S : TRUE
         IN  run[r].invocation + InvocationsOf(S \ {r})

Invocations == InvocationsOf(Threads)

\* calls of run_weekly_recommendation the model follows
MaxRuns == 2

\* the latest time the clock shows
MaxClock == 1

\* thread r calls run_weekly_recommendation
StartRun(r) ==
    /\ run[r].pc \in {"idle", "returned", "raised"}
    /\ Invocations < MaxRuns
    /\ run' = [run EXCEPT ![r] = [NoRun EXCEPT !.pc = "get_universe",
                                               !.invocation = run[r].invocation + 1]]
    /\ UNCHANGED <<settings, holdings_table, recommendations, clock, persisted, completed>>
    /\ UNCHANGED <<allocVars, differVars, signalVars>>
    /\ UNCHANGED cleanerVars

\* universe = get_universe()
GetUniverse(r) ==
    /\ run[r].pc = "get_universe"
    /\ run' = [run EXCEPT ![r].pc = "get_top_n",
                          ![r].calls = @ \cup {"get_universe"},
                          ![r].universe = settings.universe]
    /\ UNCHANGED <<settings, holdings_table, recommendations, clock, persisted, completed>>
    /\ UNCHANGED <<allocVars, differVars, signalVars>>
    /\ UNCHANGED cleanerVars

\* top_n = int(float(get_setting("top_n", str(TOP_N))))
GetTopN(r) ==
    /\ run[r].pc = "get_top_n"
    /\ LET s == settings.top_n
       IN  IF FloatRaises(s) \/ IntRaises(float(s))
           THEN Raise(r, "ValueError", {"get_setting"})
           ELSE run' = [run EXCEPT ![r].pc = "get_max_single_weight",
                                   ![r].calls = @ \cup {"get_setting"},
                                   ![r].top_n = int(float(s))]
    /\ UNCHANGED <<settings, holdings_table, recommendations, clock, persisted, completed>>
    /\ UNCHANGED <<allocVars, differVars, signalVars>>
    /\ UNCHANGED cleanerVars

\* max_single_weight = float(get_setting("max_single_weight", ...))
GetMaxSingleWeight(r) ==
    /\ run[r].pc = "get_max_single_weight"
    /\ LET s == settings.max_single_weight
       IN  IF FloatRaises(s)
           THEN Raise(r, "ValueError", {"get_setting"})
           ELSE run' = [run EXCEPT ![r].pc = "download_prices",
                                   ![r].calls = @ \cup {"get_setting"},
                                   ![r].max_single_weight = float(s)]
    /\ UNCHANGED <<settings, holdings_table, recommendations, clock, persisted, completed>>
    /\ UNCHANGED <<allocVars, differVars, signalVars>>
    /\ UNCHANGED cleanerVars

\* prices = download_prices(universe, ...) and the test prices.empty:
\* yf.download returns a frame or fails with an I/O error
DownloadPrices(r, outcome) ==
    /\ run[r].pc = "download_prices"
    /\ IF ~HasReturned(outcome)
       THEN Raise(r, outcome.raised, {"download_prices"})
       ELSE LET f == download_prices(outcome.value, run[r].universe)
            IN  run' = [run EXCEPT ![r].pc = IF IsEmpty(f) THEN "no_data"
                                             ELSE "compute_signals",
                                   ![r].calls = @ \cup {"download_prices"},
                                   ![r].prices = f]
    /\ UNCHANGED <<settings, holdings_table, recommendations, clock, persisted, completed>>
    /\ UNCHANGED <<allocVars, differVars, signalVars>>
    /\ UNCHANGED cleanerVars

\* lines 312-315: the payload of a run without price data;
\* datetime.now() returns a time not before the last one it returned
BuildNoDataPayload(r) ==
    /\ run[r].pc = "no_data"
    /\ \E ts \in clock..MaxClock :
        /\ clock' = ts
        /\ run' = [run EXCEPT ![r].pc = "save", ![r].payload = NoDataPayload(ts)]
    /\ UNCHANGED <<settings, holdings_table, recommendations, persisted, completed>>
    /\ UNCHANGED <<allocVars, differVars, signalVars>>
    /\ UNCHANGED cleanerVars

\* lines 319-322: signals, selected and last_prices
ComputeSignals(r) ==
    /\ run[r].pc = "compute_signals"
    /\ LET sig == compute_signals(run[r].prices)
       IN  IF ~HasReturned(sig)
           THEN Raise(r, sig.raised, {"compute_signals"})
           ELSE run' = [run EXCEPT ![r].pc = "get_holdings",
                                   ![r].calls = @ \cup {"compute_signals"},
                                   ![r].signals = sig.value,
                                   ![r].selected = SelectedOf(sig.value, run[r].top_n),
                                   ![r].last_prices = LastPrices(run[r].prices)]
    /\ UNCHANGED <<settings, holdings_table, recommendations, clock, persisted, completed>>
    /\ UNCHANGED <<allocVars, differVars, signalVars>>
    /\ UNCHANGED cleanerVars

\* holdings = get_holdings()
GetHoldings(r) ==
    /\ run[r].pc = "get_holdings"
    /\ run' = [run EXCEPT ![r].pc = "build_payload",
                          ![r].calls = @ \cup {"get_holdings"},
                          ![r].holdings = holdings_table]
    /\ UNCHANGED <<settings, holdings_table, recommendations, clock, persisted, completed>>
    /\ UNCHANGED <<allocVars, differVars, signalVars>>
    /\ UNCHANGED cleanerVars

\* lines 325-342: target weights, trade list and payload
BuildPayload(r) ==
    /\ run[r].pc = "build_payload"
    /\ LET tw == target_weights(run[r].selected, run[r].max_single_weight, run[r].top_n)
       IN  IF ~HasReturned(tw)
           THEN /\ Raise(r, tw.raised, {"target_weights"})
                /\ UNCHANGED clock
           ELSE LET tl == generate_trade_list(run[r].holdings, run[r].last_prices,
                                              tw.value, MIN_TRADE_USD)
                IN  IF ~HasReturned(tl)
                    THEN /\ Raise(r, tl.raised, {"target_weights", "generate_trade_list"})
                         /\ UNCHANGED clock
                    ELSE \E ts \in clock..MaxClock :
                            /\ clock' = ts
                            /\ run' = [run EXCEPT
                                    ![r].pc = "save",
                                    ![r].calls = @ \cup {"target_weights", "generate_trade_list"},
                                    ![r].payload = Payload(ts, run[r].universe,
                                        run[r].selected, run[r].signals,
                                        tl.value.total_value, tl.value.cw, tw.value,
                                        tl.value.trades)]
    /\ UNCHANGED <<settings, holdings_table, recommendations, persisted, completed>>
    /\ UNCHANGED <<allocVars, differVars, signalVars>>
    /\ UNCHANGED cleanerVars

\* INSERT OR REPLACE INTO recommendations(ts, payload)
save_recommendation(payload) ==
    /\ recommendations' = DictSet(recommendations, payload.ts, payload)
    /\ persisted' = persisted \cup {payload}

\* save_recommendation(payload); return payload (lines 316-317, 343-344)
SaveAndReturn(r) ==
    /\ run[r].pc = "save"
    /\ save_recommendation(run[r].payload)
    /\ run' = [run EXCEPT ![r].pc = "returned",
                          ![r].calls = @ \cup {"save_recommendation"},
                          ![r].handed = Append(@, run[r].payload),
                          ![r].result = Returned(run[r].payload)]
    /\ completed' = completed + 1
    /\ UNCHANGED <<settings, holdings_table, clock>>
    /\ UNCHANGED <<allocVars, differVars, signalVars>>
    /\ UNCHANGED cleanerVars

-----------------------------------------------------------------------------
(* Bounds and input sets of the application specification.                 *)

\* what yf.download returns: nothing at all, one ticker on one day, one
\* ticker with no value on its only day, and a history long enough to rank
ProviderFrames ==
    { [columns |-> <<>>, rows |-> 0, data |-> <<>>],
      FrameOf(<<"AAPL">>, 1, <<Shape(10, 10, 12, 100, "none")>>),
      FrameOf(<<"AAPL">>, 1, <<Shape(10, 10, 12, 100, "all")>>),
      FrameOf(<<"AAPL", "MSFT", "NVDA">>, SufficientRows,
              <<Shape(10, 10, 12, 100, "none"), Shape(10, 10, 8, 100, "none"),
                Shape(10, 20, 30, 100, "none")>>) }

ProviderOutcomes == {Raised("ConnectionError")} \cup {Returned(df) : df \in ProviderFrames}

TopNFields ==
    {FieldMissing, NotANumber, Str(NaN), Str(PosInf), Str(Q(-37, 10)), Str(IntQ(51))}

WeightFields ==
    {FieldMissing, NotANumber, Str(NaN), Str(NegInf), Str(PosInf), Str(Q(1, 200))}

UniverseFields ==
    { <<>>,
      <<Piece("AAPL", 4), Piece("MSFT", 4), Piece("NVDA", 4), Piece("AMZN", 4),
        Piece("ABCDEFGHIJK", 11)>>,
      <<Piece("AAPL", 4), Piece("", 0), Piece("MSFT", 4), Piece("NVDA", 4),
        Piece("AMZN", 4), Piece("GOOGL", 5)>> }

\* the forms POST /settings is given
SettingsForms ==
    [universe : UniverseFields, top_n : TopNFields, max_single_weight : WeightFields]

\* the settings forms of the application specification: an empty one, and
\* one that changes the universe, top_n (to 1) and the cap (to 1.0)
RunSettingsForms ==
    { [universe |-> <<>>, top_n |-> NotANumber, max_single_weight |-> NotANumber],
      [universe |-> <<Piece("AAPL", 4), Piece("", 0), Piece("MSFT", 4),
                      Piece("NVDA", 4), Piece("AMZN", 4), Piece("GOOGL", 5)>>,
       top_n |-> Str(Q(-37, 10)),
       max_single_weight |-> Str(NaN)] }

\* the forms POST /holdings is given
HoldingsForms ==
    [ticker : {"", "AAPL"}, shares : {NotANumber, Str(IntQ(-3))}]

\* the state init_db() leaves in a new database
InitApp ==
    /\ settings = [universe |-> DEFAULT_UNIVERSE,
                   top_n |-> Str(IntQ(TOP_N)),
                   max_single_weight |-> Str(MAX_SINGLE_WEIGHT)]
    /\ holdings_table = (CASH_TICKER :> IntQ(10000))
    /\ recommendations = <<>>
    /\ clock = 0
    /\ run = [r \in Threads |-> NoRun]
    /\ persisted = {}
    /\ completed = 0
    /\ IdleAlloc
    /\ IdleDiffer
    /\ IdleSignals
    /\ IdleCleaner

\* The application: settings and holdings requests, and the runs of the
\* two threads, interleaved at every access to the database, the provider
\* and the clock.
NextApp ==
    \/ \E form \in RunSettingsForms : update_settings(form)
    \/ \E form \in HoldingsForms : update_holdings(form)
    \/ \E r \in Threads :
        \/ StartRun(r)
        \/ GetUniverse(r)
        \/ GetTopN(r)
        \/ GetMaxSingleWeight(r)
        \/ \E outcome \in ProviderOutcomes : DownloadPrices(r, outcome)
        \/ BuildNoDataPayload(r)
        \/ ComputeSignals(r)
        \/ GetHoldings(r)
        \/ BuildPayload(r)
        \/ SaveAndReturn(r)

SpecApp == InitApp /\ [][NextApp]_vars

\* The settings table, its writer and its readers: every settings form,
\* and runs that read the settings and then find the provider down.
NextSettings ==
    \/ \E form \in SettingsForms : update_settings(form)
    \/ \E r \in Threads :
        \/ StartRun(r)
        \/ GetUniverse(r)
        \/ GetTopN(r)
        \/ GetMaxSingleWeight(r)
        \/ DownloadPrices(r, Raised("ConnectionError"))

SpecSettings == InitApp /\ [][NextSettings]_vars


-----------------------------------------------------------------------------
(* Claims about run_weekly_recommendation, checked under SpecApp.          *)

\* thread r holds the frame download_prices returned
HasPrices(r) ==
    run[r].pc \in {"no_data", "compute_signals", "get_holdings", "build_payload",
                   "save", "returned"}

\* ... and the frame has no row or no column
NoPriceData(r) ==
    HasPrices(r) /\ (run[r].prices.rows = 0 \/ Len(run[r].prices.columns) = 0)

\* ... or has data that gives no signal
NoSignal(r) ==
    /\ run[r].pc \in {"get_holdings", "build_payload", "save", "returned"}
    /\ ~NoPriceData(r)
    /\ run[r].signals = <<>>

\* C11: every call of run_weekly_recommendation that has ended has handed
\* exactly one snapshot to save_recommendation and has returned to its
\* caller, whether the run succeeded, the provider returned no history or
\* the provider failed with an I/O error.
C11_OneSnapshotPerInvocation ==
    \A r \in Threads :
        Finished(r) => (Len(run[r].handed) = 1 /\ HasReturned(run[r].result))

\* C12: a run whose price history is empty never reaches compute_signals,
\* target_weights, generate_trade_list or get_holdings; its payload holds a
\* timestamp and the error tag and nothing else; it hands that payload to
\* save_recommendation, which stores it, and returns it.
C12_NoDataSnapshot ==
    \A r \in Threads :
        NoPriceData(r) =>
            /\ run[r].pc \in {"no_data", "save", "returned"}
            /\ run[r].calls \cap {"compute_signals", "target_weights",
                                  "generate_trade_list", "get_holdings"} = {}
            /\ run[r].pc \in {"save", "returned"} =>
                    /\ DOMAIN run[r].payload = {"ts", "error"}
                    /\ run[r].payload.error = NO_DATA_ERROR
            /\ run[r].pc = "returned" =>
                    /\ run[r].handed = <<run[r].payload>>
                    /\ run[r].result = Returned(run[r].payload)
                    /\ run[r].payload \in persisted

\* C12 happens: a run has returned the no-data snapshot of a frame whose
\* only row held no value, while the holdings table holds a position.
C12_Witness ==
    \E r \in Threads :
        /\ run[r].pc = "returned"
        /\ NoPriceData(r)
        /\ Len(run[r].prices.columns) > 0
        /\ "AAPL" \in DOMAIN holdings_table

\* the BUY instructions of the payload of thread r
Buys(r) ==
    {i \in 1..Len(run[r].payload.trades) : run[r].payload.trades[i].action = "BUY"}

\* what C13 says of a run with price data and no signal, but for the BUYs
CashOnlySnapshot(r) ==
    /\ run[r].pc # "raised"
    /\ run[r].pc \in {"save", "returned"} =>
            /\ run[r].payload.selected = <<>>
            /\ run[r].payload.target_weights = (CASH_TICKER :> One)
    /\ run[r].pc = "returned" =>
            /\ run[r].handed = <<run[r].payload>>
            /\ run[r].payload \in persisted

C16_AppendOnly ==
    /\ \A p \in persisted :
            p.ts \in DOMAIN recommendations /\ recommendations[p.ts] = p
    /\ Cardinality(DOMAIN recommendations) = completed

-----------------------------------------------------------------------------
(* Claims about the settings table, checked under SpecSettings.            *)

\* the string s holds an integer in [1, 50]
TopNInRange(s) ==
    /\ s.kind = "number"
    /\ isfinite(s.float)
    /\ s.float[2] = 1
    /\ s.float[1] \in 1..50

\* the string s holds a fraction in [0.01, 1.0]
WeightInRange(s) ==
    /\ s.kind = "number"
    /\ isfinite(s.float)
    /\ RLe(Q(1, 100), s.float)
    /\ RLe(s.float, One)

\* float() rejects the field, or int() rejects the float
TopNUnparsable(field) ==
    field.kind = "text" \/ (field.kind = "number" /\ ~isfinite(field.float))

\* the stored settings are in range, and so is what a run has read
SettingsInRange ==
    /\ TopNInRange(settings.top_n)
    /\ WeightInRange(settings.max_single_weight)
    /\ \A r \in Threads :
        /\ run[r].pc \in {"get_max_single_weight", "download_prices"} =>
                run[r].top_n \in 1..50
        /\ run[r].pc = "download_prices" =>
                /\ RLe(Q(1, 100), run[r].max_single_weight)
                /\ RLe(run[r].max_single_weight, One)

\* a form whose value does not parse stores the value already stored
UnparsableKeepsValue ==
    /\ \A field \in TopNFields :
            TopNUnparsable(field) => TopNAfter(settings.top_n, field) = settings.top_n
    /\ \A field \in WeightFields :
            field.kind = "text" =>
                WeightAfter(settings.max_single_weight, field) = settings.max_single_weight

\* C15: after init_db() and any sequence of POST /settings, the settings
\* table holds a top_n that is an integer in [1, 50] and a
\* max_single_weight in [0.01, 1.0], a run reads no other, and a value
\* that does not parse leaves the stored one as it was.
C15_SettingsStayInRange == SettingsInRange /\ UnparsableKeepsValue

\* C15 happens: the table holds the two limits 50 and 0.01, which only
\* clamping stores, and a run has read them.
C15_Witness ==
    /\ settings.top_n = Str(IntQ(50))
    /\ settings.max_single_weight = Str(Q(1, 100))
    /\ \E r \in Threads :
        /\ run[r].pc = "download_prices"
        /\ run[r].top_n = 50
        /\ run[r].max_single_weight = Q(1, 100)


-----------------------------------------------------------------------------
(* More claims about target_weights, generate_trade_list, current_weights  *)
(* and compute_signals.                                                    *)

\* C14: target_weights and generate_trade_list never raise: each call
\* returns a result, whatever the selection, the count N (0 and negative
\* values included), the cap, the holdings, the prices and the targets.
C14_NeverRaise ==
    /\ tw_out # NotCalled => HasReturned(tw_out)
    /\ tl_out # NotCalled => HasReturned(tl_out)

\* the half of C14 that is about generate_trade_list
TradeListReturns == tl_out # NotCalled => HasReturned(tl_out)

\* the current weights and the total value generate_trade_list returned
CurrentW == tl_out.value.cw
TotalValue == tl_out.value.total_value

\* no position has a negative value: the cash quantity is not negative,
\* and neither is quantity * price of any priced instrument
NoNegativePosition ==
    \A t \in DOMAIN holdings :
        IF t = CASH_TICKER THEN RLe(Zero, holdings[t])
        ELSE isfinite(Get(last_prices, t, NaN)) =>
                RLe(Zero, RMul(holdings[t], last_prices[t]))

\* C17 as stated: for a total value above 0, every current weight lies in
\* [0, 1] and the weights, cash included, sum to 1 within 1e-9.
C17_WeightVectorInvariant ==
    (HasReturned(tl_out) /\ RLt(Zero, TotalValue)) =>
        /\ WithinTolerance(sum(CurrentW), One)
        /\ \A t \in DOMAIN CurrentW :
                RLe(Zero, CurrentW[t]) /\ RLe(CurrentW[t], One)

\* C17 amended: for a total value above 0 the current weights, cash
\* included, sum to 1 within 1e-9; every weight lies in [0, 1] when no
\* position has a negative value.
C17_WeightsSumToOne ==
    (HasReturned(tl_out) /\ RLt(Zero, TotalValue)) =>
        /\ WithinTolerance(sum(CurrentW), One)
        /\ NoNegativePosition =>
                \A t \in DOMAIN CurrentW :
                    RLe(Zero, CurrentW[t]) /\ RLe(CurrentW[t], One)

\* C17 happens: cash and two priced positions, each with a weight strictly
\* between 0 and 1.
C17_Witness ==
    /\ HasReturned(tl_out)
    /\ RLt(Zero, TotalValue)
    /\ DOMAIN CurrentW = {CASH_TICKER, "AAPL", "MSFT"}
    /\ \A t \in DOMAIN CurrentW : RLt(Zero, CurrentW[t]) /\ RLt(CurrentW[t], One)

\* C18: within the SELL group and within the BUY group, the instructions
\* are in descending order of absolute (reported) dollar size, and
\* instructions of equal size are in ascending ticker order.
C18_OrderWithinGroup ==
    HasReturned(tl_out) =>
        \A i, j \in 1..Len(Trades) :
            (i < j /\ Trades[i].action = Trades[j].action) =>
                \/ RLt(RAbs(Trades[j].delta_usd), RAbs(Trades[i].delta_usd))
                \/ /\ RAbs(Trades[j].delta_usd) = RAbs(Trades[i].delta_usd)
                   /\ TickerRank(Trades[i].ticker) < TickerRank(Trades[j].ticker)

\* C18 happens: two instructions of one group, the larger one first
\* although its ticker comes later.
C18_Witness ==
    /\ HasReturned(tl_out)
    /\ Len(Trades) = 2
    /\ Trades[1].action = Trades[2].action
    /\ Trades[1].ticker = "MSFT"
    /\ Trades[2].ticker = "AAPL"
    /\ RLt(RAbs(Trades[2].delta_usd), RAbs(Trades[1].delta_usd))
    /\ holdings[CASH_TICKER] = IntQ(1000)

\* C18's tie: two instructions of one group and one size, in ticker order.
C18_WitnessTie ==
    /\ HasReturned(tl_out)
    /\ Len(Trades) = 2
    /\ Trades[1].action = Trades[2].action
    /\ Trades[1].delta_usd = Trades[2].delta_usd
    /\ Trades[1].ticker = "AAPL"

\* C19: the momentum of every ranked instrument is
\* price[now] / price[now - Lm] - 1 with price[now - Lm] the price Lm rows
\* before the latest row.
C19_MomentumOverLmRows ==
    HasReturned(sig_out) =>
        \A i \in 1..Len(Signals) :
            LET col == prices.data[Signals[i].ticker]
            IN  Signals[i].momentum =
                    RSub(RDiv(col[prices.rows],
                              col[prices.rows - MOMENTUM_LOOKBACK_DAYS]), One)

\* the held instruments whose price is finite and above 0
PositivelyPriced ==
    {t \in DOMAIN holdings \ {CASH_TICKER} :
        isfinite(Get(last_prices, t, NaN)) /\ RLt(Zero, Get(last_prices, t, NaN))}

\* cash_quantity + the sum of quantity * price over the instruments of S
RECURSIVE ValueOfPriced(_)
ValueOfPriced(S) ==
    IF S = {} THEN Get(holdings, CASH_TICKER, Zero)
    ELSE LET t == CHOOSE u \in S : TRUE
         IN  RAdd(RMul(holdings[t], last_prices[t]), ValueOfPriced(S \ {t}))

\* C20: total_value is the cash quantity plus quantity * price over the
\* held instruments whose price is finite and above 0; an instrument
\* whose price is missing, not finite, zero or negative adds nothing and
\* gets no current weight.
C20_ValueOverPositivePrices ==
    HasReturned(tl_out) =>
        /\ TotalValue = ValueOfPriced(PositivelyPriced)
        /\ DOMAIN CurrentW \subseteq PositivelyPriced \cup {CASH_TICKER}

-----------------------------------------------------------------------------
(* Claims about the hygiene step and the volatility of compute_signals,    *)
(* checked under SpecSignals.                                              *)

\* the rows of the window [now - max(Lm, Lv), now] of the frame
WindowRows ==
    { i \in 1..prices.rows :
        i >= prices.rows - Max(MOMENTUM_LOOKBACK_DAYS, VOL_LOOKBACK_DAYS) }

\* ticker t has a value missing inside the window
MissingInWindow(t) == \E i \in WindowRows : prices.data[t][i] = NaN

\* ticker t has a value missing before the window
MissingBeforeWindow(t) ==
    \E i \in (1..prices.rows) \ WindowRows : prices.data[t][i] = NaN

\* the latest forward-filled price of ticker t is below the price floor
BelowFloor(t) == ~AtLeastMinPrice(LastFilled(prices.data[t]))

\* ticker t is in the signal list
Listed(t) == \E i \in 1..Len(Signals) : Signals[i].ticker = t

\* the price of t moved on the last day, the days before in the
\* volatility window being present and equal: its volatility is not zero
MovedOnLastDay(t) ==
    /\ prices.rows > VOL_LOOKBACK_DAYS
    /\ prices.data[t][prices.rows] # NaN
    /\ prices.data[t][prices.rows] # prices.data[t][prices.rows - 1]
    /\ \A i \in (prices.rows - VOL_LOOKBACK_DAYS)..(prices.rows - 1) :
            /\ prices.data[t][i] # NaN
            /\ prices.data[t][i] = prices.data[t][prices.rows - 1]

\* C21: compute_signals drops an instrument exactly when its latest
\* forward-filled price is below Pmin or a value is missing inside the
\* window [now - max(Lm, Lv), now]; an instrument at or above Pmin whose
\* only missing values lie before the window is retained and, its
\* volatility not being zero, receives a signal.
C21_DroppedExactlyOnWindow ==
    (HasReturned(sig_out) /\ ~NotEnoughHistory(prices.rows)) =>
        \A t \in DOMAIN prices.data :
            /\ (BelowFloor(t) \/ MissingInWindow(t)) => ~Listed(t)
            /\ (~BelowFloor(t) /\ ~MissingInWindow(t) /\ MovedOnLastDay(t)) =>
                    Listed(t)

\* the case of C21 that the call gets wrong: a value is missing before the
\* window only, the price is at or above Pmin and the volatility is not
\* zero, and the instrument is not listed
C21_DroppedOutsideWindow ==
    /\ HasReturned(sig_out)
    /\ ~NotEnoughHistory(prices.rows)
    /\ \E t \in DOMAIN prices.data :
        /\ MissingBeforeWindow(t)
        /\ ~MissingInWindow(t)
        /\ ~BelowFloor(t)
        /\ MovedOnLastDay(t)
        /\ ~Listed(t)


\* the variance of the last Lv daily returns of ticker t, for a column
\* without missing values
ReturnVariance(t) ==
    SampleVariance(TailRows(Returns(prices.data[t]), VOL_LOOKBACK_DAYS))

\* the volatility of ticker t over the last Lv daily returns is zero
ZeroVolatility(t) ==
    /\ ~HasMissing(prices.data[t])
    /\ ReturnVariance(t) = Zero

\* the sign of a float, as a float
SignOf(x) == IntQ(IF x[1] < 0 THEN -1 ELSE 1)

\* C22: an instrument whose volatility over the last Lv daily returns is
\* zero never appears in the signal list, and every signal in the list has
\* a finite score equal to momentum / volatility with volatility > 0 (the
\* volatility being the annualised deviation of the instrument's last Lv
\* returns; score and volatility are compared through their squares).
C22_ZeroVolatilityUnlisted ==
    HasReturned(sig_out) =>
        /\ \A t \in DOMAIN prices.data : ZeroVolatility(t) => ~Listed(t)
        /\ \A i \in 1..Len(Signals) :
            LET r == Signals[i]
            IN  /\ isfinite(r.momentum)
                /\ isfinite(r.vol_squared)
                /\ isfinite(r.score)
                /\ RLt(Zero, r.vol_squared)
                /\ r.vol_squared = RMul(ReturnVariance(r.ticker), IntQ(ANNUALIZATION))
                /\ RMul(r.score, r.vol_squared)
                        = RMul(SignOf(r.momentum), RMul(r.momentum, r.momentum))
                /\ (r.score[1] < 0) = (r.momentum[1] < 0)

\* C22 happens: on a sufficient history a complete instrument at or above
\* Pmin has zero volatility and is left out, next to one that is listed.
C22_Witness ==
    /\ HasReturned(sig_out)
    /\ ~NotEnoughHistory(prices.rows)
    /\ Len(Signals) > 0
    /\ \E t \in DOMAIN prices.data :
        /\ Complete(t)
        /\ ZeroVolatility(t)
        /\ ~Listed(t)

-----------------------------------------------------------------------------
(* Claim about the funding of the trade list, checked under SpecDiffer.    *)

\* the dollar amount of the instructions of one action in the trade list
RECURSIVE AmountOf(_, _)
AmountOf(action, trades) ==
    IF trades = <<>> THEN Zero
    ELSE RAdd(IF Head(trades).action = action
              THEN RAbs(Head(trades).delta_usd) ELSE Zero,
              AmountOf(action, Tail(trades)))

BuyAmount == AmountOf("BUY", Trades)
SellAmount == AmountOf("SELL", Trades)

\* the cash quantity of the holdings
CashHeld == Get(holdings, CASH_TICKER, Zero)

\* every quantity of the holdings, cash included, is non-negative
NonNegativeHoldings == \A t \in DOMAIN holdings : RLe(Zero, holdings[t])

\* the target is a WeightVector: fractions in [0, 1] that sum to 1
TargetIsWeightVector ==
    /\ \A t \in DOMAIN target_w : RLe(Zero, target_w[t]) /\ RLe(target_w[t], One)
    /\ sum(target_w) = One

\* C23: for holdings with non-negative quantities and a target WeightVector
\* that sums to 1, the trade list is self-funding: the total dollar amount
\* of its BUY instructions never exceeds the current cash quantity plus the
\* total dollar amount of its SELL instructions, also when deltas are
\* skipped by the threshold or for lack of a valid price.
C23_SelfFunding ==
    (HasReturned(tl_out) /\ NonNegativeHoldings /\ TargetIsWeightVector) =>
        RLe(BuyAmount, RAdd(CashHeld, SellAmount))

-----------------------------------------------------------------------------
(* The large-file cleaner of code/lf2.py: the menu loop of main,           *)
(* select_files_to_delete and delete_files.                                *)
(*                                                                         *)
(* large_files is held as the list of its file paths, largest first (the   *)
(* sizes are read once by the scan and only printed afterwards). The       *)
(* cleaner is one thread: it stops at each input(), and a step of the      *)
(* model runs it from one input() to the next.                             *)

\* the most files the scan finds
MaxFiles == 3

\* the most comma-separated parts of a selection
MaxParts == 2

\* the files of the Downloads folder above the threshold, largest first
FilePool == <<"a.iso", "b.zip", "c.mkv", "d.img">>

Files == {FilePool[i] : i \in 1..MaxFiles}

\* the elements of the list s
Elems(s) == {s[i] : i \in 1..Len(s)}

\* the files of S in the order of the pool: large_files after
\* large_files.sort(key=lambda x: x[1], reverse=True)
RECURSIVE SortedBySize(_, _)
SortedBySize(S, i) ==
    IF i > Len(FilePool) THEN <<>>
    ELSE (IF FilePool[i] \in S THEN <<FilePool[i]>> ELSE <<>>)
            \o SortedBySize(S, i + 1)

\* the lines typed at the menu, at the selection and at the confirmation
MenuChoices == {"1", "2", "3", " 2 ", "4", ""}
SelectionWords == {"", "none", "all", "ALL", "NONE ", "delete"}
Confirmations == {"DELETE", " DELETE ", "delete", "", "yes"}

\* str.strip() and str.lower() on those lines
strip(line) ==
    CASE line = " 2 " -> "2"
      [] line = "NONE " -> "NONE"
      [] line = " DELETE " -> "DELETE"
      [] OTHER -> line

lower(line) ==
    CASE line = "ALL" -> "all"
      [] line = "NONE" -> "none"
      [] line = "DELETE" -> "delete"
      [] OTHER -> line

\* A selection line is a word, or a list of comma-separated parts; a part
\* is a number, a range "lo-hi", or text that int() rejects.
Number(n) == [kind |-> "number", lo |-> n, hi |-> n]
Range(lo, hi) == [kind |-> "range", lo |-> lo, hi |-> hi]
Text == [kind |-> "text", lo |-> 0, hi |-> 0]

Word(w) == [kind |-> "word", word |-> w, parts |-> <<>>]
Parts(ps) == [kind |-> "parts", word |-> "", parts |-> ps]

\* selected_indices of one part: int(part), or range(int(start), int(end) + 1)
IndicesOfPart(part) ==
    IF part.hi < part.lo THEN <<>>
    ELSE [i \in 1..(part.hi - part.lo + 1) |-> part.lo + i - 1]

RECURSIVE selected_indices(_)
selected_indices(parts) ==
    IF parts = <<>> THEN <<>>
    ELSE IndicesOfPart(Head(parts)) \o selected_indices(Tail(parts))

\* int() raises ValueError on a part of the line
RaisesValueError(parts) == \E i \in 1..Len(parts) : parts[i].kind = "text"

INVALID_INPUT == "Invalid input. Please enter numbers separated by commas, or 'all', or 'none'."
\* the message goes on with len(large_files)
INVALID_SELECTION == "Invalid selection. Please enter numbers between 1 and"

\* one pass of the loop of select_files_to_delete on the line typed: the
\* list returned, or the message printed before the loop asks again
select_files_to_delete(files, response) ==
    IF response.kind = "word"
    THEN LET line == lower(strip(response.word))
         IN  IF line = "none" \/ line = "" THEN Returned(<<>>)
             ELSE IF line = "all" THEN Returned(files)
             ELSE Raised(INVALID_INPUT)
    ELSE IF RaisesValueError(response.parts) THEN Raised(INVALID_INPUT)
    ELSE LET idx == selected_indices(response.parts)
         IN  IF \A k \in 1..Len(idx) : 1 <= idx[k] /\ idx[k] <= Len(files)
             THEN Returned([k \in 1..Len(idx) |-> files[idx[k]]])
             ELSE Raised(INVALID_SELECTION)

\* what os.remove does to a file that exists
RemoveOutcomes == {"removed", "PermissionError", "OSError"}

\* the loop of delete_files over filepaths, from the disk d, os.remove
\* ending as outcome says: the disk left and the two counters
RECURSIVE DeleteLoop(_, _, _)
DeleteLoop(filepaths, d, outcome) ==
    IF filepaths = <<>> THEN [disk |-> d, successful |-> 0, failed |-> 0]
    ELSE LET fp == Head(filepaths)
             removes == fp \in d /\ outcome[fp] = "removed"
             rest == DeleteLoop(Tail(filepaths),
                                IF removes THEN d \ {fp} ELSE d, outcome)
         IN  [disk |-> rest.disk,
              successful |-> rest.successful + (IF removes THEN 1 ELSE 0),
              failed |-> rest.failed + (IF removes THEN 0 ELSE 1)]

\* confirmation != 'DELETE'
NotConfirmed(confirmation) == strip(confirmation) # "DELETE"

\* delete_files(filepaths) on the confirmation typed
delete_files(filepaths, d, confirmation, outcome) ==
    IF NotConfirmed(confirmation)
    THEN [disk |-> d, successful |-> 0, failed |-> 0]
    ELSE DeleteLoop(filepaths, d, outcome)

\* [(fp, size) for fp, size in large_files if fp not in files_to_delete]
UpdatedList(files, chosen) == SelectSeq(files, LAMBDA fp : fp \notin Elems(chosen))

\* the lines the steps print (the ones the menu loop is known by)
NO_FILES_FOUND == "No files found above 100,000 KB."
OPENING == "Opening:"
SELECT_FILES == "Select files to delete:"
NO_FILES_SELECTED == "No files selected for deletion."
CANCELLED == "Cancelled."
WARNING == "WARNING: You are about to PERMANENTLY DELETE"
DELETION_CANCELLED == "Deletion cancelled."
DELETING == "Deleting files..."
DELETION_COMPLETE == "Deletion complete:"
ALL_DELETED == "All files have been deleted."
EXITING == "Exiting."
INVALID_CHOICE == "Invalid choice. Please enter 1, 2, or 3."

PartChoices ==
    {Text} \cup {Number(n) : n \in 0..(MaxFiles + 1)}
           \cup {Range(lo, hi) : lo \in 0..(MaxFiles + 1), hi \in 0..(MaxFiles + 1)}

SelectionLines ==
    {Word(w) : w \in SelectionWords}
        \cup {Parts(ps) : ps \in SeqsUpTo(PartChoices, MaxParts) \ {<<>>}}

\* main up to the menu: the scan, the early return on an empty list, the sort
InitCleaner ==
    /\ \E S \in SUBSET Files :
        /\ disk = S
        /\ scanned = SortedBySize(S, 1)
        /\ large_files = SortedBySize(S, 1)
        /\ pc = IF S = {} THEN "exited" ELSE "menu"
        /\ output = IF S = {} THEN <<NO_FILES_FOUND>> ELSE <<>>
    /\ files_to_delete = <<>>
    /\ counts = <<0, 0>>
    /\ deleted = {}
    /\ confirmed = {}
    /\ IdleAlloc
    /\ IdleDiffer
    /\ IdleSignals
    /\ IdleApp

\* choice '1': the shortcuts folder is made in the temporary directory
\* and opened, or create_shortcuts_folder returns None
ChooseOpen(choice, created) ==
    /\ pc = "menu"
    /\ strip(choice) = "1"
    /\ output' = IF created THEN <<OPENING>> ELSE <<>>
    /\ UNCHANGED <<large_files, files_to_delete, pc, counts, disk, scanned,
                   deleted, confirmed>>
    /\ UNCHANGED <<allocVars, differVars, signalVars, appVars>>

\* choice '2': select_files_to_delete lists the files and asks
ChooseDelete(choice) ==
    /\ pc = "menu"
    /\ strip(choice) = "2"
    /\ pc' = "select"
    /\ output' = <<SELECT_FILES>>
    /\ UNCHANGED <<large_files, files_to_delete, counts, disk, scanned,
                   deleted, confirmed>>
    /\ UNCHANGED <<allocVars, differVars, signalVars, appVars>>

\* choice '3'
ChooseExit(choice) ==
    /\ pc = "menu"
    /\ strip(choice) = "3"
    /\ pc' = "exited"
    /\ output' = <<EXITING>>
    /\ UNCHANGED <<large_files, files_to_delete, counts, disk, scanned,
                   deleted, confirmed>>
    /\ UNCHANGED <<allocVars, differVars, signalVars, appVars>>

\* any other choice
ChooseInvalid(choice) ==
    /\ pc = "menu"
    /\ strip(choice) \notin {"1", "2", "3"}
    /\ output' = <<INVALID_CHOICE>>
    /\ UNCHANGED <<large_files, files_to_delete, pc, counts, disk, scanned,
                   deleted, confirmed>>
    /\ UNCHANGED <<allocVars, differVars, signalVars, appVars>>

\* Ctrl-C at the menu, or at the confirmation of delete_files, which does
\* not catch it: main's except KeyboardInterrupt leaves the loop
Interrupt ==
    /\ pc \in {"menu", "confirm"}
    /\ pc' = "exited"
    /\ output' = <<EXITING>>
    /\ UNCHANGED <<large_files, files_to_delete, counts, disk, scanned,
                   deleted, confirmed>>
    /\ UNCHANGED <<allocVars, differVars, signalVars, appVars>>

\* a line typed at "Enter selection: ": the loop asks again, or main gets
\* the list and, when it is not empty, delete_files asks for confirmation
Select(response) ==
    /\ pc = "select"
    /\ LET r == select_files_to_delete(large_files, response)
       IN  IF ~HasReturned(r)
           THEN /\ output' = <<r.raised>>
                /\ UNCHANGED <<pc, files_to_delete>>
           ELSE /\ files_to_delete' = r.value
                /\ pc' = IF r.value = <<>> THEN "menu" ELSE "confirm"
                /\ output' = IF r.value = <<>> THEN <<NO_FILES_SELECTED>>
                             ELSE <<WARNING>>
    /\ UNCHANGED <<large_files, counts, disk, scanned, deleted, confirmed>>
    /\ UNCHANGED <<allocVars, differVars, signalVars, appVars>>

\* Ctrl-C at "Enter selection: ": select_files_to_delete returns []
SelectInterrupt ==
    /\ pc = "select"
    /\ files_to_delete' = <<>>
    /\ pc' = "menu"
    /\ output' = <<CANCELLED, NO_FILES_SELECTED>>
    /\ UNCHANGED <<large_files, counts, disk, scanned, deleted, confirmed>>
    /\ UNCHANGED <<allocVars, differVars, signalVars, appVars>>

\* a line typed at the confirmation: delete_files returns, and main
\* updates the list and leaves the loop when the list is empty
Confirm(confirmation, outcome) ==
    /\ pc = "confirm"
    /\ LET res == delete_files(files_to_delete, disk, confirmation, outcome)
           left == UpdatedList(large_files, files_to_delete)
       IN  /\ disk' = res.disk
           /\ counts' = <<res.successful, res.failed>>
           /\ deleted' = deleted \cup (disk \ res.disk)
           /\ confirmed' = IF NotConfirmed(confirmation) THEN confirmed
                           ELSE confirmed \cup Elems(files_to_delete)
           /\ large_files' = left
           /\ pc' = IF left = <<>> THEN "exited" ELSE "menu"
           /\ output' = <<IF NotConfirmed(confirmation)
                          THEN DELETION_CANCELLED ELSE DELETING,
                          DELETION_COMPLETE>>
                        \o (IF left = <<>> THEN <<ALL_DELETED>> ELSE <<>>)
    /\ UNCHANGED <<files_to_delete, scanned>>
    /\ UNCHANGED <<allocVars, differVars, signalVars, appVars>>

NextCleaner ==
    \/ \E choice \in MenuChoices :
        \/ \E created \in BOOLEAN : ChooseOpen(choice, created)
        \/ ChooseDelete(choice)
        \/ ChooseExit(choice)
        \/ ChooseInvalid(choice)
    \/ Interrupt
    \/ \E response \in SelectionLines : Select(response)
    \/ SelectInterrupt
    \/ \E confirmation \in Confirmations, outcome \in [Files -> RemoveOutcomes] :
            Confirm(confirmation, outcome)

SpecCleaner == InitCleaner /\ [][NextCleaner]_vars

-----------------------------------------------------------------------------
(* Claim about the menu loop of the cleaner, checked under SpecCleaner.    *)

\* the files main has taken off large_files
Unlisted == Elems(scanned) \ Elems(large_files)

\* C24: in the menu loop of lf2.main a file leaves large_files only if
\* delete_files deleted it (a file of a deletion that was not confirmed
\* with 'DELETE', or whose removal failed, stays listed), no file leaves
\* the disk without that confirmation, and 'All files have been deleted.'
\* is printed, and the loop left, only when every listed file was deleted.
C24_ListTracksDeletions ==
    /\ Unlisted \subseteq deleted
    /\ deleted \subseteq confirmed
    /\ (\E i \in 1..Len(output) : output[i] = ALL_DELETED) =>
            /\ pc = "exited"
            /\ Elems(scanned) \subseteq deleted

\* the part of C24 the loop keeps: nothing leaves the disk without the
\* confirmation, and what left the disk is what delete_files removed
C24_NoRemovalWithoutConfirmation ==
    /\ deleted \subseteq confirmed
    /\ disk = Elems(scanned) \ deleted

\* the case of C24 the loop gets wrong: the confirmation was refused,
\* every file is on the disk, the list is empty and the loop has said
\* that all files have been deleted
C24_UnlistedButOnDisk ==
    /\ output = <<DELETION_CANCELLED, DELETION_COMPLETE, ALL_DELETED>>
    /\ counts = <<0, 0>>
    /\ scanned # <<>>
    /\ disk = Elems(scanned)
    /\ large_files = <<>>

====
